---- MODULE Spec2Model ----
(***************************************************************************)
(* Model of the knowledge-ingestion pipeline, the Source registry and the  *)
(* in-memory task queue of gm-smart-shield.                                *)
(*                                                                         *)
(*   sources   the knowledge_sources table (features/knowledge/models.py)  *)
(*   collection, store   the ChromaDB "knowledge_base" collection          *)
(*   tasks     InMemoryTaskQueue.tasks (shared/worker/memory.py)           *)
(*   work, wpc, run   the closure of each _worker coroutine, its position  *)
(*             and the locals of the _process_sync call it makes           *)
(*   embedding_model   the module-level _embedding_model of the service    *)
(*   search    the locals of each _query_knowledge_sync call               *)
(*   polled    the last get_status call and what it returned               *)
(*   links     the inputs of one suggest_note_links call and its result     *)
(*             (features/notes/service.py)                                  *)
(*   limiter   the RateLimitMiddleware object, the clock it reads, the      *)
(*             requests it has passed on in each client's current window    *)
(*             and its last answer (shared/middleware/rate_limit.py)        *)
(*                                                                         *)
(* Every database commit and every vector-store call is one step; the      *)
(* pipeline runs on executor threads, so the steps of different tasks      *)
(* interleave freely.  uuid4 values are modelled as fresh: a task id is    *)
(* the next unused index, a run's base_id is the index of its task.        *)
(* Timestamps are modelled by the event that wrote them.                   *)
(***************************************************************************)
EXTENDS Integers, Sequences, FiniteSets, TLC

\* ---- bounds of the model -------------------------------------------------
MaxTasks == 2
MaxDirs == 2
MaxChunks == 2
MaxWorkSteps == 1
\* the largest number of chunks of the single run of SpecRun
MaxRunChunks == 65
MaxSearches == 1
MaxTopK == 2
\* rate limiter: clients, advances of the clock, and the configured
\* requests_per_minute (RATELIMIT_DEFAULT of the tests)
MaxClients == 2
MaxTicks == 2
RequestsPerMinute == 2
\* note linking: chunks in the collection and the largest limit asked for
MaxStored == 2
MaxLimit == 2

\* ---- program constants ---------------------------------------------------
BatchSize == 32
\* an id no Source record has (tests/unit/test_knowledge_service.py)
UnknownSourceId == 999

\* rate limiter: window length, cleanup_interval and max_entries
Window == 60
CleanupInterval == 60
MaxEntries == 10000

None == <<>>
Some(v) == <<v>>
PyNone == "None"

\* str(e) of the exceptions the collaborators raise; Exception() has str "".
Msgs == {"", "boom"}
\* values returned by generic units of work
Results == {"r1", "r2"}

\* file paths: the same file name in MaxDirs directories; the directories are
\* interchangeable, so the k-th path ever submitted is taken to be in
\* directory k
Paths == {<<d, "notes.txt">> : d \in 1..MaxDirs}
FileName(path) == path[2]

TaskIds == 1..MaxTasks
SearchIds == 1..MaxSearches

VARIABLES sources, collection, store, tasks, work, wpc, run, stale,
          embedding_model, search, polled, limiter, links

vars == <<sources, collection, store, tasks, work, wpc, run, stale,
          embedding_model, search, polled, limiter, links>>

\* ---- numbers -------------------------------------------------------------
Min(a, b) == IF a <= b THEN a ELSE b

RECURSIVE GCD(_, _)
GCD(a, b) == IF b = 0 THEN a ELSE GCD(b, a % b)

\* progress is a float in the code; here the exact fraction num/den in
\* lowest terms
Frac(a, b) == <<a \div GCD(a, b), b \div GCD(a, b)>>
Pct(k) == <<k, 1>>

\* a <= b for fractions with positive denominators
FracLeq(a, b) == a[1] * b[2] <= b[1] * a[2]

BatchProgressUnclamped(i, n) == Frac(30 * n + 60 * (i + BatchSize), n)

\* 30.0 + 60.0 * (min(i + batch_size, total_chunks) / total_chunks)
BatchProgress(i, n) == Frac(30 * n + 60 * Min(i + BatchSize, n), n)

\* ---- Source registry -----------------------------------------------------
NewSource(path) ==
    [file_path |-> path, status |-> "pending", progress |-> Pct(0),
     current_step |-> Some("Queued"), chunk_count |-> 0, started_at |-> None,
     last_indexed_at |-> None, error_message |-> None, features |-> <<>>]

\* truthiness of an optional string argument: None and "" are both falsy
Truthy(arg) == arg # None /\ arg[1] # ""

UpdateTaskState(srcs, sid, status, progress, step, error, started_at) ==
    IF sid \notin DOMAIN srcs THEN srcs
    ELSE [srcs EXCEPT ![sid] =
            [@ EXCEPT
               !.status = IF Truthy(status) THEN status[1] ELSE @,
               !.progress = IF progress # None THEN progress[1] ELSE @,
               !.current_step = IF Truthy(step) THEN step ELSE @,
               !.error_message = IF Truthy(error) THEN error ELSE @,
               !.started_at = IF started_at # None THEN started_at ELSE @]]

\* create_or_update_knowledge_source: the id is the table's autoincrement key
CreateOrUpdateId(srcs, path) ==
    IF \E s \in DOMAIN srcs : srcs[s].file_path = path
    THEN CHOOSE s \in DOMAIN srcs : srcs[s].file_path = path
    ELSE Cardinality(DOMAIN srcs) + 1

CreateOrUpdateKnowledgeSourceResetsIndex(srcs, path) ==
    LET sid == CreateOrUpdateId(srcs, path) IN
    IF sid \in DOMAIN srcs
    THEN [srcs EXCEPT ![sid] =
            [@ EXCEPT !.status = "pending", !.progress = Pct(0),
                      !.current_step = Some("Queued"),
                      !.error_message = None,
                      !.chunk_count = 0, !.last_indexed_at = None]]
    ELSE srcs @@ (sid :> NewSource(path))

CreateOrUpdateKnowledgeSource(srcs, path) ==
    LET sid == CreateOrUpdateId(srcs, path) IN
    IF sid \in DOMAIN srcs
    THEN [srcs EXCEPT ![sid] =
            [@ EXCEPT !.status = "pending", !.progress = Pct(0),
                      !.current_step = Some("Queued"),
                      !.error_message = None]]
    ELSE srcs @@ (sid :> NewSource(path))

RefreshKnowledgeSourceResetsIndex(srcs, sid) ==
    [srcs EXCEPT ![sid] =
        [@ EXCEPT !.status = "pending", !.progress = Pct(0),
                  !.current_step = Some("Queued for refresh"),
                  !.error_message = None, !.started_at = None,
                  !.chunk_count = 0, !.last_indexed_at = None]]

\* refresh_knowledge_source on an existing record
RefreshKnowledgeSource(srcs, sid) ==
    [srcs EXCEPT ![sid] =
        [@ EXCEPT !.status = "pending", !.progress = Pct(0),
                  !.current_step = Some("Queued for refresh"),
                  !.error_message = None, !.started_at = None]]

\* ---- vector store --------------------------------------------------------
ExistingIdsUnfiltered(st, path) == {c.id : c \in st}

\* collection.get(where={"source": file_path}, include=[])["ids"]
ExistingIds(st, path) == {c.id : c \in {x \in st : x.source = path}}

\* ids and metadatas of one run: "<file name>_<base_id>_<i>"
NewChunks(path, base_id, n) ==
    {[id |-> <<FileName(path), base_id, i>>, source |-> path, chunk_index |-> i]
        : i \in 0..(n - 1)}

CollectionAdd(st, chunks) == st \cup chunks
CollectionDeleteKeeps(st, ids) == st
CollectionDelete(st, ids) == {c \in st : c.id \notin ids}

\* ---- task queue ----------------------------------------------------------
IdleRun == [pc |-> "idle", file_path |-> None, total_chunks |-> 0, i |-> 0,
            model |-> None, existing_ids |-> {}, result |-> None, exc |-> None]
\* the locals of one _query_knowledge_sync call
IdleSearch == [pc |-> "idle", top_k |-> 0, model |-> None, reply |-> None]
\* the unit of work a task wraps; outcome records how the work ended
NoWork == [kind |-> "none", sid |-> 0, steps |-> 0, outcome |-> None]
IngestWork(sid) == [kind |-> "ingest", sid |-> sid, steps |-> 0, outcome |-> None]
GenericWork == [kind |-> "generic", sid |-> 0, steps |-> 0, outcome |-> None]

\* uuid4: an id no task has yet
NewTaskId == Cardinality(DOMAIN tasks) + 1

InFlight(t) == wpc[t] \notin {"none", "done"}
RunActive(t) == run[t].pc \notin {"idle", "lookup", "returned", "raised"}

EnqueueAwaitsWork(w) ==
    /\ NewTaskId <= MaxTasks
    /\ tasks' = tasks @@ (NewTaskId :> [status |-> "running", enqueued_at |-> "now"])
    /\ work' = [work EXCEPT ![NewTaskId] = w]
    /\ wpc' = [wpc EXCEPT ![NewTaskId] = "generic"]

\* InMemoryTaskQueue.enqueue: the record is created pending and the _worker
\* coroutine is scheduled; nothing of it has run when enqueue returns
Enqueue(w) ==
    /\ NewTaskId <= MaxTasks
    /\ tasks' = tasks @@ (NewTaskId :> [status |-> "pending", enqueued_at |-> "now"])
    /\ work' = [work EXCEPT ![NewTaskId] = w]
    /\ wpc' = [wpc EXCEPT ![NewTaskId] = "scheduled"]

\* the runs that had read the record of source sid before it is reset
MarkStale(sid) ==
    stale' = [t \in TaskIds |->
                stale[t] \/ (work[t].kind = "ingest" /\ work[t].sid = sid /\ RunActive(t))]

\* RateLimitMiddleware.__init__ at time 0; windows and answer record what
\* the middleware has done: per client the time of the passed request that
\* opened its current window and the number of requests passed on since
NewLimiter ==
    [request_counts |-> <<>>, last_cleanup |-> 0, now |-> 0, ticks |-> 0,
     windows |-> [c \in 1..MaxClients |-> None], answer |-> None]

\* no suggest_note_links call
NoLinks == [note_keywords |-> {}, has_collection |-> FALSE, chunks |-> <<>>,
            semantic |-> <<>>, limit |-> 1, suggestions |-> None]

Init ==
    /\ sources = <<>>
    /\ collection = FALSE
    /\ store = {}
    /\ tasks = <<>>
    /\ work = [t \in TaskIds |-> NoWork]
    /\ wpc = [t \in TaskIds |-> "none"]
    /\ run = [t \in TaskIds |-> IdleRun]
    /\ stale = [t \in TaskIds |-> FALSE]
    /\ embedding_model = None
    /\ search = [q \in SearchIds |-> IdleSearch]
    /\ polled = None
    /\ limiter = NewLimiter
    /\ links = NoLinks

\* the process starts again over a database and a vector store in which an
\* earlier process (run 0) has indexed one source: the task table is new
InitRestarted ==
    /\ \E n \in 1..MaxChunks :
          /\ sources = <<[NewSource(<<1, "notes.txt">>) EXCEPT
                            !.status = "completed", !.progress = Pct(100),
                            !.current_step = Some("Done"), !.chunk_count = n,
                            !.started_at = Some(0), !.last_indexed_at = Some(0),
                            !.features = <<"indexation">>]>>
          /\ store = NewChunks(<<1, "notes.txt">>, 0, n)
    /\ collection = TRUE
    /\ tasks = <<>>
    /\ work = [t \in TaskIds |-> NoWork]
    /\ wpc = [t \in TaskIds |-> "none"]
    /\ run = [t \in TaskIds |-> IdleRun]
    /\ stale = [t \in TaskIds |-> FALSE]
    /\ embedding_model = None
    /\ search = [q \in SearchIds |-> IdleSearch]
    /\ polled = None
    /\ limiter = NewLimiter
    /\ links = NoLinks

\* ---- HTTP handlers -------------------------------------------------------
\* POST /knowledge: create or reset the record, then enqueue the ingestion
AddKnowledgeSource(path) ==
    /\ path[1] <= Cardinality(DOMAIN sources) + 1
    /\ sources' = CreateOrUpdateKnowledgeSource(sources, path)
    /\ Enqueue(IngestWork(CreateOrUpdateId(sources, path)))
    /\ MarkStale(CreateOrUpdateId(sources, path))
    /\ UNCHANGED <<collection, store, run, embedding_model, search, polled, limiter, links>>

\* POST /knowledge/{id}/refresh on an existing record (404 otherwise)
RefreshSource(sid) ==
    /\ sid \in DOMAIN sources
    /\ sources' = RefreshKnowledgeSource(sources, sid)
    /\ Enqueue(IngestWork(sid))
    /\ MarkStale(sid)
    /\ UNCHANGED <<collection, store, run, embedding_model, search, polled, limiter, links>>

\* queue.enqueue(run_knowledge_ingestion, id) for an id without a record
EnqueueUnknownSource ==
    /\ Enqueue(IngestWork(UnknownSourceId))
    /\ UNCHANGED <<sources, collection, store, run, stale, embedding_model, search, polled, limiter, links>>

\* queue.enqueue(work) for any other unit of work
EnqueueWork ==
    /\ Enqueue(GenericWork)
    /\ UNCHANGED <<sources, collection, store, run, stale, embedding_model, search, polled, limiter, links>>

\* ids a client may ask about: every id enqueue can return, and 0, which it
\* never returns
PollIds == 0..MaxTasks

\* self.tasks.get(task_id)
TasksGet(ts, id) == IF id \in DOMAIN ts THEN Some(ts[id]) ELSE None

GetStatusReaps(id) ==
    /\ polled' = <<id, TasksGet(tasks, id)>>
    /\ tasks' = IF id \in DOMAIN tasks /\ wpc[id] = "done"
                THEN [t \in DOMAIN tasks \ {id} |-> tasks[t]]
                ELSE tasks
    /\ UNCHANGED <<sources, collection, store, work, wpc, run, stale, embedding_model, search, limiter, links>>

\* InMemoryTaskQueue.get_status
GetStatus(id) ==
    /\ polled' = <<id, TasksGet(tasks, id)>>
    /\ UNCHANGED <<sources, collection, store, tasks, work, wpc, run, stale, embedding_model, search, limiter, links>>

\* ---- _worker -------------------------------------------------------------
WorkerStartKeepsPending(t) ==
    /\ wpc[t] = "scheduled"
    /\ tasks' = [tasks EXCEPT ![t] = ("started_at" :> "now") @@ @]
    /\ wpc' = [wpc EXCEPT ![t] = IF work[t].kind = "ingest" THEN "pipeline" ELSE "generic"]
    /\ run' = [run EXCEPT ![t].pc = IF work[t].kind = "ingest" THEN "lookup" ELSE @]
    /\ UNCHANGED <<sources, collection, store, work, stale, embedding_model, search, polled, limiter, links>>

\* first lines of _worker; the awaited work starts
WorkerStart(t) ==
    /\ wpc[t] = "scheduled"
    /\ tasks' = [tasks EXCEPT ![t] =
                    ("started_at" :> "now") @@ [@ EXCEPT !.status = "running"]]
    /\ wpc' = [wpc EXCEPT ![t] = IF work[t].kind = "ingest" THEN "pipeline" ELSE "generic"]
    /\ run' = [run EXCEPT ![t].pc = IF work[t].kind = "ingest" THEN "lookup" ELSE @]
    /\ UNCHANGED <<sources, collection, store, work, stale, embedding_model, search, polled, limiter, links>>

TaskCompletedNoTimestamp(t, result) ==
    /\ tasks' = [tasks EXCEPT ![t] =
                    ("result" :> result) @@ [@ EXCEPT !.status = "completed"]]
    /\ wpc' = [wpc EXCEPT ![t] = "done"]
    /\ work' = [work EXCEPT ![t].outcome = <<"returned", result>>]

\* result = await task(...) returned: status completed, result, completed_at
TaskCompleted(t, result) ==
    /\ tasks' = [tasks EXCEPT ![t] =
                    ("completed_at" :> "now") @@ ("result" :> result)
                        @@ [@ EXCEPT !.status = "completed"]]
    /\ wpc' = [wpc EXCEPT ![t] = "done"]
    /\ work' = [work EXCEPT ![t].outcome = <<"returned", result>>]

TaskFailedUnrecorded(t, msg) ==
    /\ tasks' = [tasks EXCEPT ![t] = ("completed_at" :> "now") @@ @]
    /\ wpc' = [wpc EXCEPT ![t] = "done"]
    /\ work' = [work EXCEPT ![t].outcome = <<"raised", msg>>]

\* except Exception as e: status failed, error str(e), completed_at
TaskFailed(t, msg) ==
    /\ tasks' = [tasks EXCEPT ![t] =
                    ("completed_at" :> "now") @@ ("error" :> msg)
                        @@ [@ EXCEPT !.status = "failed"]]
    /\ wpc' = [wpc EXCEPT ![t] = "done"]
    /\ work' = [work EXCEPT ![t].outcome = <<"raised", msg>>]

\* a generic unit of work: it may take any number of steps before it ends
WorkStep(t) ==
    /\ wpc[t] = "generic"
    /\ work[t].steps < MaxWorkSteps
    /\ work' = [work EXCEPT ![t].steps = @ + 1]
    /\ UNCHANGED <<sources, collection, store, tasks, wpc, run, stale, embedding_model, search, polled, limiter, links>>

WorkReturns(t, v) ==
    /\ wpc[t] = "generic"
    /\ TaskCompleted(t, v)
    /\ UNCHANGED <<sources, collection, store, run, stale, embedding_model, search, polled, limiter, links>>

WorkRaises(t, msg) ==
    /\ wpc[t] = "generic"
    /\ TaskFailed(t, msg)
    /\ UNCHANGED <<sources, collection, store, run, stale, embedding_model, search, polled, limiter, links>>

\* ---- _process_sync -------------------------------------------------------
Sid(t) == work[t].sid
At(t, pc) == wpc[t] = "pipeline" /\ run[t].pc = pc
Goto(t, pc) == run' = [run EXCEPT ![t].pc = pc]
Return(t, result) == run' = [run EXCEPT ![t].pc = "returned", ![t].result = Some(result)]

FailKeepsStatus(t, msg) ==
    /\ sources' = UpdateTaskState(sources, Sid(t), None, None, None,
                                  Some(msg), None)
    /\ run' = [run EXCEPT ![t].pc = "returned", ![t].exc = Some(msg),
                          ![t].result = Some("Failed: " \o msg)]

\* except Exception as e: record the failure and return "Failed: <e>"
Fail(t, msg) ==
    /\ sources' = UpdateTaskState(sources, Sid(t), Some("failed"), None, None,
                                  Some(msg), None)
    /\ run' = [run EXCEPT ![t].pc = "returned", ![t].exc = Some(msg),
                          ![t].result = Some("Failed: " \o msg)]

\* a pipeline step whose collaborator raises: nothing but the handler runs
Raises(t, pc) ==
    /\ At(t, pc)
    /\ \E msg \in Msgs : Fail(t, msg)
    /\ UNCHANGED <<collection, store, tasks, work, wpc, stale, embedding_model, search, polled, limiter, links>>

LookupOrCreate(t) ==
    /\ At(t, "lookup")
    /\ IF Sid(t) \in DOMAIN sources
       THEN /\ run' = [run EXCEPT ![t].pc = "start",
                                  ![t].file_path = Some(sources[Sid(t)].file_path)]
            /\ sources' = sources
       ELSE /\ Return(t, "Source not found")
            /\ sources' = sources @@ (Sid(t) :> NewSource(<<0, "notes.txt">>))
    /\ UNCHANGED <<collection, store, tasks, work, wpc, stale, embedding_model, search, polled, limiter, links>>

\* session.query(KnowledgeSource)...first(), outside the try block
Lookup(t) ==
    /\ At(t, "lookup")
    /\ IF Sid(t) \in DOMAIN sources
       THEN run' = [run EXCEPT ![t].pc = "start",
                               ![t].file_path = Some(sources[Sid(t)].file_path)]
       ELSE Return(t, "Source not found")
    /\ UNCHANGED <<sources, collection, store, tasks, work, wpc, stale, embedding_model, search, polled, limiter, links>>

\* the query itself raises (database locked, table missing): no handler
LookupRaises(t) ==
    /\ At(t, "lookup")
    /\ \E msg \in Msgs : run' = [run EXCEPT ![t].pc = "raised", ![t].exc = Some(msg)]
    /\ UNCHANGED <<sources, collection, store, tasks, work, wpc, stale, embedding_model, search, polled, limiter, links>>

\* 1. Start
Start(t) ==
    /\ At(t, "start")
    /\ sources' = UpdateTaskState(sources, Sid(t), Some("running"), Some(Pct(0)),
                                  Some("Extracting text"), None, Some(t))
    /\ Goto(t, "extract")
    /\ UNCHANGED <<collection, store, tasks, work, wpc, stale, embedding_model, search, polled, limiter, links>>

\* 2. Extract: text with content, then the 20% checkpoint
Extract(t) ==
    /\ At(t, "extract")
    /\ sources' = UpdateTaskState(sources, Sid(t), None, Some(Pct(20)),
                                  Some("Chunking text"), None, None)
    /\ Goto(t, "chunk")
    /\ UNCHANGED <<collection, store, tasks, work, wpc, stale, embedding_model, search, polled, limiter, links>>

ExtractBlankContinues(t) ==
    /\ At(t, "extract")
    /\ sources' = UpdateTaskState(sources, Sid(t), Some("failed"), None, None,
                                  Some("No text content found"), None)
    /\ Goto(t, "chunk")
    /\ UNCHANGED <<collection, store, tasks, work, wpc, stale, embedding_model, search, polled, limiter, links>>

\* 2. Extract: empty or whitespace-only text
ExtractBlank(t) ==
    /\ At(t, "extract")
    /\ sources' = UpdateTaskState(sources, Sid(t), Some("failed"), None, None,
                                  Some("No text content found"), None)
    /\ Return(t, "No text content found")
    /\ UNCHANGED <<collection, store, tasks, work, wpc, stale, embedding_model, search, polled, limiter, links>>

\* 3. Chunk: split_text gives n chunks, at most max; then the 30% checkpoint
ChunkUpTo(t, max) ==
    /\ At(t, "chunk")
    /\ \E n \in 0..max :
          IF n = 0
          THEN /\ sources' = UpdateTaskState(sources, Sid(t), Some("failed"), None,
                                            None, Some("No chunks generated"), None)
               /\ Return(t, "No chunks generated")
          ELSE /\ sources' = UpdateTaskState(sources, Sid(t), None, Some(Pct(30)),
                                            Some("Generating embeddings"), None, None)
               /\ run' = [run EXCEPT ![t].pc = "model", ![t].total_chunks = n,
                                     ![t].i = 0]
    /\ UNCHANGED <<collection, store, tasks, work, wpc, stale, embedding_model, search, polled, limiter, links>>

Chunk(t) == ChunkUpTo(t, MaxChunks)
\* a document of up to MaxRunChunks chunks: several embedding batches
ChunkLong(t) == ChunkUpTo(t, MaxRunChunks)

\* 4. model = get_embedding_model(): the test of the module-level variable
GetEmbeddingModel(t) ==
    /\ At(t, "model")
    /\ run' = IF embedding_model = None
              THEN [run EXCEPT ![t].pc = "load"]
              ELSE [run EXCEPT ![t].pc = "embed", ![t].model = embedding_model]
    /\ UNCHANGED <<sources, collection, store, tasks, work, wpc, stale, embedding_model, search, polled, limiter, links>>

\* _embedding_model = SentenceTransformer(...) by a caller that found None;
\* the instance is named after the caller that constructs it
LoadEmbeddingModel(t) ==
    /\ At(t, "load")
    /\ embedding_model' = Some(<<"run", t>>)
    /\ run' = [run EXCEPT ![t].pc = "embed", ![t].model = Some(<<"run", t>>)]
    /\ UNCHANGED <<sources, collection, store, tasks, work, wpc, stale, search, polled, limiter, links>>

EmbedStep(i, n) ==
    "Generating embeddings (" \o ToString(Min(i + BatchSize, n)) \o "/"
        \o ToString(n) \o ")"

EmbedProgressAtBatchStart(t) ==
    /\ At(t, "embed")
    /\ LET i == run[t].i
           n == run[t].total_chunks IN
       /\ sources' = UpdateTaskState(sources, Sid(t), None,
                                     Some(Frac(30 * n + 60 * Min(i, n), n)),
                                     Some(EmbedStep(i, n)), None, None)
       /\ run' = [run EXCEPT ![t].i = i + BatchSize,
                             ![t].pc = IF i + BatchSize < n THEN "embed" ELSE "store"]
    /\ UNCHANGED <<collection, store, tasks, work, wpc, stale, embedding_model, search, polled, limiter, links>>

\* 4. Embed: one iteration of the batch loop
Embed(t) ==
    /\ At(t, "embed")
    /\ LET i == run[t].i
           n == run[t].total_chunks IN
       /\ sources' = UpdateTaskState(sources, Sid(t), None,
                                     Some(BatchProgress(i, n)),
                                     Some(EmbedStep(i, n)), None, None)
       /\ run' = [run EXCEPT ![t].i = i + BatchSize,
                             ![t].pc = IF i + BatchSize < n THEN "embed" ELSE "store"]
    /\ UNCHANGED <<collection, store, tasks, work, wpc, stale, embedding_model, search, polled, limiter, links>>

\* 5. Store: the 90% checkpoint
Store(t) ==
    /\ At(t, "store")
    /\ sources' = UpdateTaskState(sources, Sid(t), None, Some(Pct(90)),
                                  Some("Storing in Vector DB"), None, None)
    /\ Goto(t, "collection")
    /\ UNCHANGED <<collection, store, tasks, work, wpc, stale, embedding_model, search, polled, limiter, links>>

\* client.get_or_create_collection(name="knowledge_base")
GetOrCreateCollection(t) ==
    /\ At(t, "collection")
    /\ collection' = TRUE
    /\ Goto(t, "get")
    /\ UNCHANGED <<sources, store, tasks, work, wpc, stale, embedding_model, search, polled, limiter, links>>

\* existing_ids = collection.get(where={"source": file_path})["ids"]
GetExisting(t) ==
    /\ At(t, "get")
    /\ run' = [run EXCEPT ![t].pc = "add",
                          ![t].existing_ids = ExistingIds(store, run[t].file_path[1])]
    /\ UNCHANGED <<sources, collection, store, tasks, work, wpc, stale, embedding_model, search, polled, limiter, links>>

\* collection.add(...) of the new chunks under a fresh base_id
Add(t) ==
    /\ At(t, "add")
    /\ store' = CollectionAdd(store, NewChunks(run[t].file_path[1], t,
                                               run[t].total_chunks))
    /\ Goto(t, IF run[t].existing_ids # {} THEN "delete" ELSE "complete")
    /\ UNCHANGED <<sources, collection, tasks, work, wpc, stale, embedding_model, search, polled, limiter, links>>

DeleteOfLastIndex(t) ==
    /\ At(t, "delete")
    /\ store' = CollectionDelete(store,
                    {id \in run[t].existing_ids :
                        Some(id[2]) = sources[Sid(t)].last_indexed_at})
    /\ Goto(t, "complete")
    /\ UNCHANGED <<sources, collection, tasks, work, wpc, stale, embedding_model, search, polled, limiter, links>>

\* collection.delete(ids=existing_ids)
Delete(t) ==
    /\ At(t, "delete")
    /\ store' = CollectionDelete(store, run[t].existing_ids)
    /\ Goto(t, "complete")
    /\ UNCHANGED <<sources, collection, tasks, work, wpc, stale, embedding_model, search, polled, limiter, links>>

CompleteRecordSetsFeatures(srcs, sid, t, n) ==
    IF sid \notin DOMAIN srcs THEN srcs
    ELSE [srcs EXCEPT ![sid] =
            [@ EXCEPT !.status = "completed", !.progress = Pct(100),
                      !.current_step = Some("Done"),
                      !.last_indexed_at = Some(t),
                      !.chunk_count = n,
                      !.error_message = None,
                      !.features = <<"indexation">>]]

CompleteRecord(srcs, sid, t, n) ==
    IF sid \notin DOMAIN srcs THEN srcs
    ELSE [srcs EXCEPT ![sid] =
            [@ EXCEPT !.status = "completed", !.progress = Pct(100),
                      !.current_step = Some("Done"),
                      !.last_indexed_at = Some(t),
                      !.chunk_count = n,
                      !.error_message = None,
                      !.features = IF @ = <<>> THEN <<"indexation">> ELSE @]]

\* 6. Complete
Complete(t) ==
    /\ At(t, "complete")
    /\ sources' = CompleteRecord(sources, Sid(t), t, run[t].total_chunks)
    /\ Return(t, "Processed " \o ToString(run[t].total_chunks) \o " chunks")
    /\ UNCHANGED <<collection, store, tasks, work, wpc, stale, embedding_model, search, polled, limiter, links>>

\* the collaborator of a step raises
ExtractRaises(t) == Raises(t, "extract")
ChunkRaises(t) == Raises(t, "chunk")
LoadEmbeddingModelRaises(t) == Raises(t, "load")
EmbedRaises(t) == Raises(t, "embed")
GetOrCreateCollectionRaises(t) == Raises(t, "collection")
GetExistingRaises(t) == Raises(t, "get")
AddRaises(t) == Raises(t, "add")
DeleteRaises(t) == Raises(t, "delete")

\* ---- run_knowledge_ingestion after the pipeline --------------------------
AddFeature(srcs, sid, feature) ==
    IF \E k \in DOMAIN srcs[sid].features : srcs[sid].features[k] = feature
    THEN srcs
    ELSE [srcs EXCEPT ![sid].features = Append(@, feature)]

\* how an extraction ends: the agent finds a template, finds none, or an
\* exception is raised inside it (logged and swallowed, the session rolled back)
ExtractionOutcomes == {"found", "none", "raised"}

\* run_sheet_extraction: skipped unless the record is completed
SheetExtraction(t) ==
    /\ At(t, "returned")
    /\ \E outcome \in ExtractionOutcomes :
          sources' = IF Sid(t) \in DOMAIN sources
                        /\ sources[Sid(t)].status = "completed" /\ outcome = "found"
                     THEN AddFeature(sources, Sid(t), "character_sheet")
                     ELSE sources
    /\ wpc' = [wpc EXCEPT ![t] = "reference"]
    /\ UNCHANGED <<collection, store, tasks, work, run, stale, embedding_model, search, polled, limiter, links>>

ReferenceExtractionPropagates(t) ==
    /\ wpc[t] = "reference"
    /\ \E outcome \in ExtractionOutcomes :
          IF outcome = "raised"
          THEN /\ sources' = sources
               /\ \E msg \in Msgs : TaskFailed(t, msg)
          ELSE /\ sources' = IF Sid(t) \in DOMAIN sources
                                /\ sources[Sid(t)].status = "completed"
                                /\ outcome = "found"
                             THEN AddFeature(sources, Sid(t), "quick_reference")
                             ELSE sources
               /\ TaskCompleted(t, PyNone)
    /\ UNCHANGED <<collection, store, run, stale, embedding_model, search, polled, limiter, links>>

\* run_reference_extraction, then run_knowledge_ingestion returns None
ReferenceExtraction(t) ==
    /\ wpc[t] = "reference"
    /\ \E outcome \in ExtractionOutcomes :
          sources' = IF Sid(t) \in DOMAIN sources
                        /\ sources[Sid(t)].status = "completed" /\ outcome = "found"
                     THEN AddFeature(sources, Sid(t), "quick_reference")
                     ELSE sources
    /\ TaskCompleted(t, PyNone)
    /\ UNCHANGED <<collection, store, run, stale, embedding_model, search, polled, limiter, links>>

\* the exception of the lookup reaches _worker through the awaits
PipelineRaised(t) ==
    /\ At(t, "raised")
    /\ TaskFailed(t, run[t].exc[1])
    /\ UNCHANGED <<sources, collection, store, run, stale, embedding_model, search, polled, limiter, links>>

\* ---- _query_knowledge_sync -----------------------------------------------
\* query_knowledge(query, top_k): the call is handed to the executor
QueryKnowledge(q, k) ==
    /\ search[q].pc = "idle"
    /\ search' = [search EXCEPT ![q].pc = "model", ![q].top_k = k]
    /\ UNCHANGED <<sources, collection, store, tasks, work, wpc, run, stale, embedding_model, polled, limiter, links>>

\* 1. model = get_embedding_model(): the test of the module-level variable
QueryGetEmbeddingModel(q) ==
    /\ search[q].pc = "model"
    /\ search' = IF embedding_model = None
                 THEN [search EXCEPT ![q].pc = "load"]
                 ELSE [search EXCEPT ![q].pc = "query", ![q].model = embedding_model]
    /\ UNCHANGED <<sources, collection, store, tasks, work, wpc, run, stale, embedding_model, polled, limiter, links>>

\* _embedding_model = SentenceTransformer(...) by a search that found None
QueryLoadEmbeddingModel(q) ==
    /\ search[q].pc = "load"
    /\ embedding_model' = Some(<<"search", q>>)
    /\ search' = [search EXCEPT ![q].pc = "query", ![q].model = Some(<<"search", q>>)]
    /\ UNCHANGED <<sources, collection, store, tasks, work, wpc, run, stale, polled, limiter, links>>

\* collection.query(n_results=top_k) formatted: the k nearest chunks in order
\* of distance; which chunks are nearest is up to the embeddings, so any
\* ranking; the score is modelled by the rank
Rankings(st, k) ==
    {[j \in DOMAIN r |->
         [content |-> r[j].id,
          metadata |-> [source |-> r[j].source, chunk_index |-> r[j].chunk_index],
          score |-> j]] :
        r \in {f \in [1..Min(k, Cardinality(st)) -> st] :
                  \A a, b \in DOMAIN f : a # b => f[a] # f[b]}}

QueryCollectionCreates(q) ==
    /\ search[q].pc = "query"
    /\ collection' = TRUE
    /\ \E r \in Rankings(store, search[q].top_k) :
          search' = [search EXCEPT ![q].pc = "done", ![q].reply = Some(r)]
    /\ UNCHANGED <<sources, store, tasks, work, wpc, run, stale, embedding_model, polled, limiter, links>>

\* 2. client.get_collection raises ValueError for a collection that does not
\* exist: return []; otherwise query and format the results
QueryCollection(q) ==
    /\ search[q].pc = "query"
    /\ IF ~collection
       THEN search' = [search EXCEPT ![q].pc = "done", ![q].reply = Some(<<>>)]
       ELSE \E r \in Rankings(store, search[q].top_k) :
               search' = [search EXCEPT ![q].pc = "done", ![q].reply = Some(r)]
    /\ UNCHANGED <<sources, collection, store, tasks, work, wpc, run, stale, embedding_model, polled, limiter, links>>

\* ---- RateLimitMiddleware --------------------------------------------------
Clients == 1..MaxClients

\* time.time() moves on: just less than a window, a window, just more
Tick(d) ==
    /\ limiter.ticks < MaxTicks
    /\ limiter' = [limiter EXCEPT !.now = @ + d, !.ticks = @ + 1]
    /\ UNCHANGED <<sources, collection, store, tasks, work, wpc, run, stale, embedding_model, search, polled, links>>

\* _cleanup_old_entries: drop the entries older than their window
CleanupOldEntries(counts, t) ==
    [ip \in {c \in DOMAIN counts : ~(t - counts[c][2] > Window)} |-> counts[ip]]

\* the request is handed to call_next: the bookkeeping of what was passed on
Passed(w, ip, t) ==
    [w EXCEPT ![ip] = IF @ # None /\ t - @[1] < Window
                      THEN <<@[1], @[2] + 1>> ELSE <<t, 1>>]

\* dispatch for a request of client ip, given the limit; the result is the new
\* request_counts and whether the request is passed on
DispatchCounts(counts, ip, t, limit) ==
    IF ip \notin DOMAIN counts
    THEN LET kept == IF Cardinality(DOMAIN counts) >= MaxEntries
                     THEN CleanupOldEntries(counts, t) ELSE counts IN
         IF Cardinality(DOMAIN kept) >= MaxEntries
         THEN [counts |-> kept, pass |-> FALSE]
         ELSE [counts |-> kept @@ (ip :> <<1, t>>), pass |-> TRUE]
    ELSE IF t - counts[ip][2] < Window
         THEN IF counts[ip][1] >= limit
              THEN [counts |-> counts, pass |-> FALSE]
              ELSE [counts |-> [counts EXCEPT ![ip] = <<@[1] + 1, @[2]>>],
                    pass |-> TRUE]
         ELSE [counts |-> [counts EXCEPT ![ip] = <<1, t>>], pass |-> TRUE]

DispatchOffByOne(ip) ==
    LET t == limiter.now
        due == t - limiter.last_cleanup > CleanupInterval
        counts == IF due THEN CleanupOldEntries(limiter.request_counts, t)
                  ELSE limiter.request_counts
        d == DispatchCounts(counts, ip, t, RequestsPerMinute + 1) IN
    /\ limiter' = [limiter EXCEPT
                      !.request_counts = d.counts,
                      !.last_cleanup = IF due THEN t ELSE @,
                      !.windows = IF d.pass THEN Passed(@, ip, t) ELSE @,
                      !.answer = <<ip, IF d.pass THEN 200 ELSE 429>>]
    /\ UNCHANGED <<sources, collection, store, tasks, work, wpc, run, stale, embedding_model, search, polled, links>>

\* RateLimitMiddleware.dispatch: periodic cleanup, then the client's window
Dispatch(ip) ==
    LET t == limiter.now
        due == t - limiter.last_cleanup > CleanupInterval
        counts == IF due THEN CleanupOldEntries(limiter.request_counts, t)
                  ELSE limiter.request_counts
        d == DispatchCounts(counts, ip, t, RequestsPerMinute) IN
    /\ limiter' = [limiter EXCEPT
                      !.request_counts = d.counts,
                      !.last_cleanup = IF due THEN t ELSE @,
                      !.windows = IF d.pass THEN Passed(@, ip, t) ELSE @,
                      !.answer = <<ip, IF d.pass THEN 200 ELSE 429>>]
    /\ UNCHANGED <<sources, collection, store, tasks, work, wpc, run, stale, embedding_model, search, polled, links>>

\* ---- suggest_note_links ---------------------------------------------------
\* _keywords of a text: texts are given by the keywords they contain
Vocabulary == {"waterdeep", "guild"}
\* distances the collection reports, in tenths
Distances == {1, 6, 15}
Max(a, b) == IF a >= b THEN a ELSE b

\* max(0.0, min(1.0, 1.0 - distance)), in tenths
SimilarityScore(distance) == Max(0, Min(10, 10 - distance))
\* len(note_keywords.intersection(doc_keywords))
KeywordOverlap(note, doc) == Cardinality(note \cap doc)
\* n_results of the semantic query
NResults(limit) == Max(limit * 2, 10)

\* the collections a call may meet: chunk k has a distance to the note and
\* the keywords of its document
ChunkSets ==
    UNION {[1..n -> [distance : Distances, keywords : {{}, {"guild"}, Vocabulary}]]
              : n \in 0..MaxStored}
\* what collection.query may return for them: distinct chunks, nearest
\* first, at most n_results of them
SemanticResults(chunks, limit) ==
    {r \in UNION {[1..n -> DOMAIN chunks]
                     : n \in 0..Min(NResults(limit), Len(chunks))} :
        /\ \A a, b \in DOMAIN r : a # b => r[a] # r[b]
        /\ \A a, b \in DOMAIN r :
              a < b => chunks[r[a]].distance <= chunks[r[b]].distance}

\* the candidates dict in insertion order: the semantic results, then the
\* chunks of collection.get with an overlap that are not among them
RECURSIVE KeywordOnly(_, _, _, _)
KeywordOnly(l, k, seen, acc) ==
    IF k > Len(l.chunks) THEN acc
    ELSE IF KeywordOverlap(l.note_keywords, l.chunks[k].keywords) = 0 \/ k \in seen
         THEN KeywordOnly(l, k + 1, seen, acc)
         ELSE KeywordOnly(l, k + 1, seen,
                  Append(acc, [chunk_id |-> k, similarity_score |-> 0,
                               keyword_overlap |->
                                   KeywordOverlap(l.note_keywords,
                                                  l.chunks[k].keywords)]))

Candidates(l) ==
    LET sem == [j \in DOMAIN l.semantic |->
                   [chunk_id |-> l.semantic[j],
                    similarity_score |->
                        SimilarityScore(l.chunks[l.semantic[j]].distance),
                    keyword_overlap |->
                        KeywordOverlap(l.note_keywords,
                                       l.chunks[l.semantic[j]].keywords)]] IN
    KeywordOnly(l, 1, {l.semantic[j] : j \in DOMAIN l.semantic}, sem)

\* the sort key (similarity_score, keyword_overlap), compared as tuples
KeyGreater(a, b) ==
    \/ a.similarity_score > b.similarity_score
    \/ /\ a.similarity_score = b.similarity_score
       /\ a.keyword_overlap > b.keyword_overlap

\* sorted(..., key=..., reverse=True): descending, equal keys in their
\* original order
RECURSIVE Sorted(_)
Sorted(seq) ==
    IF seq = <<>> THEN <<>>
    ELSE LET m == CHOOSE j \in DOMAIN seq :
                     /\ \A k \in DOMAIN seq : ~KeyGreater(seq[k], seq[j])
                     /\ \A k \in 1..(j - 1) : KeyGreater(seq[j], seq[k])
             rest == [k \in 1..(Len(seq) - 1) |->
                         IF k < m THEN seq[k] ELSE seq[k + 1]] IN
         <<seq[m]>> \o Sorted(rest)

RankedUnsorted(cands, limit) == SubSeq(cands, 1, Min(limit, Len(cands)))

\* ranked = sorted(candidates.values(), ...)[: payload.limit]
Ranked(cands, limit) == SubSeq(Sorted(cands), 1, Min(limit, Len(cands)))

\* suggest_note_links for an existing note
SuggestNoteLinks ==
    /\ links.suggestions = None
    /\ links' = [links EXCEPT !.suggestions =
                    IF links.note_keywords = {} \/ ~links.has_collection
                    THEN Some(<<>>)
                    ELSE Some(Ranked(Candidates(links), links.limit))]
    /\ UNCHANGED <<sources, collection, store, tasks, work, wpc, run, stale, embedding_model, search, polled, limiter>>

\* a note, a collection, what its semantic query returns, and a limit
InitLinks ==
    /\ sources = <<>>
    /\ collection = FALSE
    /\ store = {}
    /\ tasks = <<>>
    /\ work = [t \in TaskIds |-> NoWork]
    /\ wpc = [t \in TaskIds |-> "none"]
    /\ run = [t \in TaskIds |-> IdleRun]
    /\ stale = [t \in TaskIds |-> FALSE]
    /\ embedding_model = None
    /\ search = [q \in SearchIds |-> IdleSearch]
    /\ polled = None
    /\ limiter = NewLimiter
    /\ \E note \in {{}, Vocabulary}, has \in BOOLEAN, chunks \in ChunkSets,
          limit \in 1..MaxLimit :
          \E semantic \in SemanticResults(chunks, limit) :
             links = [note_keywords |-> note, has_collection |-> has,
                      chunks |-> chunks, semantic |-> semantic, limit |-> limit,
                      suggestions |-> None]

\* ---- specifications ------------------------------------------------------
PipelineStep(t) ==
    \/ Lookup(t) \/ LookupRaises(t) \/ Start(t)
    \/ Extract(t) \/ ExtractBlank(t) \/ ExtractRaises(t)
    \/ Chunk(t) \/ ChunkRaises(t)
    \/ GetEmbeddingModel(t) \/ LoadEmbeddingModel(t) \/ LoadEmbeddingModelRaises(t)
    \/ Embed(t) \/ EmbedRaises(t)
    \/ Store(t)
    \/ GetOrCreateCollection(t) \/ GetOrCreateCollectionRaises(t)
    \/ GetExisting(t) \/ GetExistingRaises(t)
    \/ Add(t) \/ AddRaises(t)
    \/ Delete(t) \/ DeleteRaises(t)
    \/ Complete(t)

\* the ingestion service: submissions, refreshes and their background tasks
Next ==
    \/ \E path \in Paths : AddKnowledgeSource(path)
    \/ \E sid \in DOMAIN sources : RefreshSource(sid)
    \/ EnqueueUnknownSource
    \/ \E t \in TaskIds :
          \/ WorkerStart(t)
          \/ PipelineStep(t)
          \/ SheetExtraction(t)
          \/ ReferenceExtraction(t)
          \/ PipelineRaised(t)

Spec == Init /\ [][Next]_vars

\* the task queue alone, with units of work that return or raise
NextQueue ==
    \/ EnqueueWork
    \/ \E id \in PollIds : GetStatus(id)
    \/ \E t \in TaskIds :
          \/ WorkerStart(t)
          \/ WorkStep(t)
          \/ \E v \in Results : WorkReturns(t, v)
          \/ \E msg \in Msgs : WorkRaises(t, msg)

SpecQueue == Init /\ [][NextQueue]_vars

\* the ingestion service when every task is enqueued after the one before it
\* has finished: runs execute one after the other
Quiet == \A t \in TaskIds : ~InFlight(t)

NextSeq ==
    \/ Quiet /\ \E path \in Paths : AddKnowledgeSource(path)
    \/ Quiet /\ \E sid \in DOMAIN sources : RefreshSource(sid)
    \/ Quiet /\ EnqueueUnknownSource
    \/ \E t \in TaskIds :
          \/ WorkerStart(t)
          \/ PipelineStep(t)
          \/ SheetExtraction(t)
          \/ ReferenceExtraction(t)
          \/ PipelineRaised(t)

SpecSeq == Init /\ [][NextSeq]_vars

\* submissions and refreshes, with their runs interleaving, over an index
\* that already holds a source
NextRestarted ==
    \/ \E path \in Paths : AddKnowledgeSource(path)
    \/ \E sid \in DOMAIN sources : RefreshSource(sid)
    \/ \E t \in TaskIds :
          \/ WorkerStart(t)
          \/ PipelineStep(t)
          \/ SheetExtraction(t)
          \/ ReferenceExtraction(t)
          \/ PipelineRaised(t)

SpecRestarted == InitRestarted /\ [][NextRestarted]_vars

\* runs one after the other on the executor thread: _process_sync is
\* straight-line code, so a run whose calls return or raise keeps stepping
SpecSeqFair == SpecSeq /\ \A t \in TaskIds : WF_vars(PipelineStep(t))

\* the same, with runs executing one after the other
SpecRestartedSeq == InitRestarted /\ [][NextSeq]_vars

\* the steps of a run that finds no chunk under its path: no delete
FirstRunStep(t) ==
    \/ Lookup(t) \/ LookupRaises(t) \/ Start(t)
    \/ Extract(t) \/ ExtractBlank(t) \/ ExtractRaises(t)
    \/ ChunkRaises(t)
    \/ GetEmbeddingModel(t) \/ LoadEmbeddingModel(t) \/ LoadEmbeddingModelRaises(t)
    \/ Embed(t) \/ EmbedRaises(t)
    \/ Store(t)
    \/ GetOrCreateCollection(t) \/ GetOrCreateCollectionRaises(t)
    \/ GetExisting(t) \/ GetExistingRaises(t)
    \/ Add(t) \/ AddRaises(t)
    \/ Complete(t)

\* one submission of one long document and its single run
NextRun ==
    \/ tasks = <<>> /\ \E path \in Paths : AddKnowledgeSource(path)
    \/ \E t \in TaskIds :
          \/ WorkerStart(t)
          \/ FirstRunStep(t)
          \/ ChunkLong(t)
          \/ SheetExtraction(t)
          \/ ReferenceExtraction(t)
          \/ PipelineRaised(t)

SpecRun == Init /\ [][NextRun]_vars

\* one submission and its run, with searches on the executor beside it
NextSearch ==
    \/ tasks = <<>> /\ \E path \in Paths : AddKnowledgeSource(path)
    \/ \E t \in TaskIds :
          \/ WorkerStart(t)
          \/ FirstRunStep(t)
          \/ Chunk(t)
          \/ SheetExtraction(t)
          \/ ReferenceExtraction(t)
          \/ PipelineRaised(t)
    \/ \E q \in SearchIds :
          \/ \E k \in 1..MaxTopK : QueryKnowledge(q, k)
          \/ QueryGetEmbeddingModel(q)
          \/ QueryLoadEmbeddingModel(q)
          \/ QueryCollection(q)

SpecSearch == Init /\ [][NextSearch]_vars

\* the rate limiter under requests of several clients over time
NextRate ==
    \/ \E d \in {Window - 1, Window, Window + 1} : Tick(d)
    \/ \E ip \in Clients : Dispatch(ip)

SpecRate == Init /\ [][NextRate]_vars

\* one suggest_note_links call on each of its inputs
NextLinks == SuggestNoteLinks

SpecLinks == InitLinks /\ [][NextLinks]_vars

\* ==== properties ==========================================================
Ids(chunks) == {c.id : c \in chunks}
IsIngest(t) == work[t].kind = "ingest" /\ Sid(t) \in DOMAIN sources
RunIds(t) == Ids(NewChunks(sources[Sid(t)].file_path, t, run[t].total_chunks))
Succeeded(t) ==
    /\ run[t].pc = "returned"
    /\ run[t].result = Some("Processed " \o ToString(run[t].total_chunks) \o " chunks")
BeforeAdd(t) ==
    run[t].pc \in {"idle", "lookup", "start", "extract", "chunk", "model", "load",
                   "embed", "store",
                   "collection", "get", "add"}
IsReset == (\E path \in Paths : AddKnowledgeSource(path))
              \/ (\E sid \in DOMAIN sources : RefreshSource(sid))

\* C1: chunks are removed from the store only by a run that is past its
\* successful add; and when a run's add raises, the store loses no chunk, the
\* Source has status failed and last_error equal to the add's message, and the
\* run returns "Failed: <message>".
C1_AddFailureRecorded ==
    [][/\ \A c \in store \ store' :
             \E t \in TaskIds : At(t, "delete") /\ c.id \in run[t].existing_ids
       /\ \A t \in TaskIds :
             (At(t, "add") /\ run'[t].exc # None) =>
                 /\ store \subseteq store'
                 /\ sources'[Sid(t)].status = "failed"
                 /\ sources'[Sid(t)].error_message = run'[t].exc
                 /\ run'[t].pc = "returned"
                 /\ run'[t].result = Some("Failed: " \o run'[t].exc[1])]_vars

\* C2: when two runs for one source execute one after the other and both
\* succeed, then (until a later run for the source reaches its add) the chunks
\* stored under the source's path are exactly the second run's, none is the
\* first run's, and chunk_count is the second run's number of chunks.
C2_ReingestReplaces ==
    \A u, t \in TaskIds :
        (/\ u < t /\ IsIngest(u) /\ IsIngest(t) /\ Sid(u) = Sid(t)
         /\ Succeeded(u) /\ Succeeded(t)
         /\ \A v \in TaskIds : (v > t /\ work[v].sid = Sid(t)) => BeforeAdd(v))
        => /\ ExistingIds(store, sources[Sid(t)].file_path) = RunIds(t)
           /\ ExistingIds(store, sources[Sid(t)].file_path) \cap RunIds(u) = {}
           /\ sources[Sid(t)].chunk_count = run[t].total_chunks

C2_Witness ==
    \E u, t \in TaskIds :
        /\ u < t /\ IsIngest(u) /\ IsIngest(t) /\ Sid(u) = Sid(t)
        /\ Succeeded(u) /\ Succeeded(t)
        /\ run[t].existing_ids = RunIds(u)
        /\ ExistingIds(store, sources[Sid(t)].file_path) = RunIds(t)

\* C3: whenever a Source has status completed and none of its tasks is in
\* flight, the chunks stored under its path are exactly the chunks of one
\* single run, as many as the Source's chunk_count.
C3_CompletedHasOneRunsChunks ==
    \A s \in DOMAIN sources :
        (/\ sources[s].status = "completed"
         /\ \A t \in TaskIds : work[t].sid = s => ~InFlight(t))
        => \E t \in TaskIds :
              /\ work[t].kind = "ingest" /\ work[t].sid = s
              /\ ExistingIds(store, sources[s].file_path) = RunIds(t)
              /\ Cardinality(ExistingIds(store, sources[s].file_path))
                    = sources[s].chunk_count

\* C4: a run never raises; and when a step of it raises, the run returns
\* "Failed: <message>" and leaves the Source with status failed and last_error
\* equal to the message.
C4_RunNeverRaises ==
    [][\A t \in TaskIds :
          /\ run'[t].pc # "raised"
          /\ (run[t].exc = None /\ run'[t].exc # None) =>
                 /\ run'[t].pc = "returned"
                 /\ run'[t].result = Some("Failed: " \o run'[t].exc[1])
                 /\ sources'[Sid(t)].status = "failed"
                 /\ sources'[Sid(t)].error_message = run'[t].exc]_vars

\* C5: in the step in which enqueue creates a task, the task's record is
\* pending with only enqueued_at, its worker is merely scheduled and no step
\* of its work has run.
C5_EnqueueReturnsPending ==
    [][\A t \in TaskIds :
          (t \notin DOMAIN tasks /\ t \in DOMAIN tasks') =>
              /\ tasks'[t] = [status |-> "pending", enqueued_at |-> "now"]
              /\ wpc'[t] = "scheduled"
              /\ work'[t].steps = 0 /\ work'[t].outcome = None]_vars

\* enqueue has returned for a task while another task's work is under way
C5_Witness ==
    \E t, u \in DOMAIN tasks :
        /\ tasks[t].status = "pending" /\ wpc[t] = "scheduled"
        /\ wpc[u] = "generic" /\ work[u].steps > 0

\* C6: a task's status changes only pending -> running, running -> completed
\* or running -> failed.
C6_TaskTransitions ==
    [][\A t \in DOMAIN tasks :
          tasks'[t].status # tasks[t].status =>
              <<tasks[t].status, tasks'[t].status>> \in
                  {<<"pending", "running">>, <<"running", "completed">>,
                   <<"running", "failed">>}]_vars

C6_Witness ==
    \E t, u \in DOMAIN tasks :
        tasks[t].status = "completed" /\ tasks[u].status = "failed"

\* C7: a task whose work raised is failed with the exception's message as its
\* error and its worker has ended; every other task that is in flight can
\* still take its next step.
C7_WorkExceptionCaught ==
    /\ \A t \in DOMAIN tasks :
          (work[t].outcome # None /\ work[t].outcome[1] = "raised") =>
              /\ tasks[t].status = "failed"
              /\ tasks[t].error = work[t].outcome[2]
              /\ "result" \notin DOMAIN tasks[t]
              /\ wpc[t] = "done"
    /\ \A u \in DOMAIN tasks :
          /\ wpc[u] = "scheduled" => ENABLED WorkerStart(u)
          /\ wpc[u] = "generic" => ENABLED (\E v \in Results : WorkReturns(u, v))

\* a task failed with the empty message while another completed
C7_Witness ==
    \E t, u \in DOMAIN tasks :
        /\ work[t].outcome = <<"raised", "">> /\ tasks[t].status = "failed"
        /\ tasks[u].status = "completed"

\* C8: a Source's status changes only pending -> running, running ->
\* completed, running -> failed or pending -> failed in a step that is no
\* refresh, or completed/failed -> pending in a refresh or re-submission.
C8_SourceTransitions ==
    [][\A s \in DOMAIN sources :
          sources'[s].status # sources[s].status =>
              \/ /\ ~IsReset
                 /\ <<sources[s].status, sources'[s].status>> \in
                       {<<"pending", "running">>, <<"running", "completed">>,
                        <<"running", "failed">>, <<"pending", "failed">>}
              \/ /\ IsReset
                 /\ sources[s].status \in {"completed", "failed"}
                 /\ sources'[s].status = "pending"]_vars

\* C9: a step of a run that had read the record before the record was reset
\* leaves the record as it is.
C9_StaleWritesIgnored ==
    [][\A t \in TaskIds :
          (stale[t] /\ run'[t] # run[t]) =>
              sources'[Sid(t)] = sources[Sid(t)]]_vars

\* C10: status completed implies progress 100, chunk_count >= 0 and no
\* last_error.
C10_CompletedInvariant ==
    \A s \in DOMAIN sources :
        sources[s].status = "completed" =>
            /\ sources[s].progress = Pct(100)
            /\ sources[s].chunk_count >= 0
            /\ sources[s].error_message = None

\* C11: in every reachable state a Source with status failed has a last_error
\* (error_message is not null), whatever the message of the exception that
\* failed the run and whether or not a refresh cleared an earlier error.
C11_FailedHasError ==
    \A s \in DOMAIN sources :
        sources[s].status = "failed" => sources[s].error_message # None

\* C12: the progress values that one run writes to its Source record never
\* decrease, stay within [0, 100], and the last one is exactly 100 when the
\* run succeeds.
C12_ProgressMonotone ==
    /\ [][\A s \in DOMAIN sources :
              FracLeq(sources[s].progress, sources'[s].progress)]_vars
    /\ [](\A s \in DOMAIN sources :
              /\ FracLeq(Pct(0), sources[s].progress)
              /\ FracLeq(sources[s].progress, Pct(100)))
    /\ [](\A t \in TaskIds :
              Succeeded(t) => sources[Sid(t)].progress = Pct(100))

\* a run of more than two embedding batches has succeeded
C12_Witness ==
    \E t \in TaskIds :
        /\ Succeeded(t) /\ run[t].total_chunks > 2 * BatchSize
        /\ sources[Sid(t)].progress = Pct(100)

\* C13: when extraction yields blank text or chunking yields zero chunks, the
\* step sets the Source to failed with the error message recorded, the run
\* returns that message without raising, the vector store is not touched, and
\* the run takes no further step (so it performs no add and no delete).
C13_SoftFailure ==
    [][\A t \in TaskIds :
          /\ (ExtractBlank(t) \/ (Chunk(t) /\ run'[t].total_chunks = 0)) =>
                 /\ sources'[Sid(t)].status = "failed"
                 /\ sources'[Sid(t)].error_message \in
                        {Some("No text content found"), Some("No chunks generated")}
                 /\ run'[t].result = sources'[Sid(t)].error_message
                 /\ run'[t].pc = "returned" /\ run'[t].exc = None
                 /\ store' = store /\ collection' = collection
          /\ run[t].result \in {Some("No text content found"),
                                 Some("No chunks generated")} =>
                 run'[t] = run[t]]_vars

\* one run ended on blank text, another on zero chunks
C13_Witness ==
    \E t, u \in TaskIds :
        /\ run[t].result = Some("No text content found")
        /\ run[u].result = Some("No chunks generated")
        /\ run[u].pc = "returned" /\ run[u].exc = None
        /\ sources[Sid(u)].status = "failed"
        /\ sources[Sid(u)].error_message = Some("No chunks generated")

\* C14: when the lookup of a run finds no Source record for its id, the run
\* returns "Source not found"; no step of that run or of its task creates or
\* modifies a Source record or touches the vector store.
C14_SourceNotFound ==
    [][\A t \in TaskIds :
          /\ (Lookup(t) /\ Sid(t) \notin DOMAIN sources) =>
                 /\ run'[t].pc = "returned" /\ run'[t].exc = None
                 /\ run'[t].result = Some("Source not found")
          /\ run[t].result = Some("Source not found") => run'[t] = run[t]
          /\ (/\ work[t].kind = "ingest" /\ Sid(t) \notin DOMAIN sources
              /\ (run'[t] # run[t] \/ wpc'[t] # wpc[t])) =>
                 /\ sources' = sources
                 /\ store' = store /\ collection' = collection]_vars

\* the task of a run on an unknown id is over; a completed Source and its
\* chunks are still there
C14_Witness ==
    \E t \in TaskIds :
        /\ Sid(t) = UnknownSourceId /\ Sid(t) \notin DOMAIN sources
        /\ run[t].result = Some("Source not found")
        /\ t \in DOMAIN tasks /\ tasks[t].status = "completed"
        /\ \E s \in DOMAIN sources :
              /\ sources[s].status = "completed"
              /\ ExistingIds(store, sources[s].file_path) # {}

\* C15: the Complete step of a run (every step before it succeeded) leaves
\* the Source completed with progress 100, chunk_count equal to the number of
\* chunks the run stored (more than 0), last_error null and last_indexed_at
\* set; the run returns "Processed <n> chunks"; features becomes
\* ["indexation"] if it was empty and is unchanged otherwise.
C15_SuccessfulRun ==
    [][\A t \in TaskIds :
          Complete(t) =>
              LET s == Sid(t)
                  n == Cardinality({c \in store : c.id[2] = t}) IN
              /\ n > 0
              /\ sources'[s].status = "completed"
              /\ sources'[s].progress = Pct(100)
              /\ sources'[s].chunk_count = n
              /\ sources'[s].error_message = None
              /\ sources'[s].last_indexed_at # None
              /\ run'[t].pc = "returned" /\ run'[t].exc = None
              /\ run'[t].result = Some("Processed " \o ToString(n) \o " chunks")
              /\ sources'[s].features =
                    IF sources[s].features = <<>> THEN <<"indexation">>
                    ELSE sources[s].features]_vars

\* a second run has just completed a Source that already had two features
C15_Witness ==
    \E t \in TaskIds :
        /\ Succeeded(t) /\ wpc[t] = "pipeline" /\ IsIngest(t)
        /\ sources[Sid(t)].status = "completed"
        /\ sources[Sid(t)].last_indexed_at = Some(t)
        /\ sources[Sid(t)].chunk_count = run[t].total_chunks
        /\ Len(sources[Sid(t)].features) > 1

\* C16: a refresh of an existing Source, whatever its state, sets status
\* pending, progress 0, last_error null and started_at null, and leaves the
\* record's id, file path, chunk_count, last_indexed_at and features (and
\* every other record) unchanged.
C16_RefreshFrame ==
    [][\A sid \in DOMAIN sources :
          RefreshSource(sid) =>
              /\ DOMAIN sources' = DOMAIN sources
              /\ sources'[sid].status = "pending"
              /\ sources'[sid].progress = Pct(0)
              /\ sources'[sid].error_message = None
              /\ sources'[sid].started_at = None
              /\ sources'[sid].file_path = sources[sid].file_path
              /\ sources'[sid].chunk_count = sources[sid].chunk_count
              /\ sources'[sid].last_indexed_at = sources[sid].last_indexed_at
              /\ sources'[sid].features = sources[sid].features
              /\ \A o \in DOMAIN sources \ {sid} : sources'[o] = sources[o]]_vars

\* an indexed Source has just been refreshed
C16_Witness ==
    \E s \in DOMAIN sources :
        /\ sources[s].current_step = Some("Queued for refresh")
        /\ sources[s].status = "pending" /\ sources[s].started_at = None
        /\ sources[s].chunk_count > 0 /\ sources[s].last_indexed_at # None
        /\ Len(sources[s].features) > 1

\* C17: get_status(id) returns the task's current record exactly when enqueue
\* has returned id before, and None for every other id; it changes no task
\* record; and no step ever removes a task record.
C17_GetStatus ==
    [][/\ DOMAIN tasks \subseteq DOMAIN tasks'
       /\ \A id \in PollIds :
             GetStatus(id) =>
                 /\ tasks' = tasks
                 /\ polled'[1] = id
                 /\ polled'[2] = IF id \in TaskIds /\ wpc[id] # "none"
                                  THEN Some(tasks[id]) ELSE None]_vars

\* the last get_status returned the record of a completed task that is
\* still there; another id has not been issued yet
C17_Witness ==
    /\ polled # None
    /\ polled[1] \in DOMAIN tasks
    /\ polled[2] = Some(tasks[polled[1]])
    /\ tasks[polled[1]].status = "completed"
    /\ \E id \in TaskIds : id \notin DOMAIN tasks /\ TasksGet(tasks, id) = None

\* C18: every task record has enqueued_at; a running one has started_at; a
\* completed one has completed_at and the result its work returned, and no
\* error; a failed one has error and completed_at, and no result; a pending
\* one has none of started_at, completed_at, result, error.
C18_TaskRecordFields ==
    \A t \in DOMAIN tasks :
        LET r == tasks[t]
            F == DOMAIN tasks[t] IN
        /\ "enqueued_at" \in F
        /\ r.status = "running" => "started_at" \in F
        /\ r.status = "completed" =>
               /\ {"result", "completed_at"} \subseteq F /\ "error" \notin F
               /\ work[t].outcome = <<"returned", r.result>>
        /\ r.status = "failed" =>
               /\ {"error", "completed_at"} \subseteq F /\ "result" \notin F
        /\ r.status = "pending" =>
               F \cap {"started_at", "completed_at", "result", "error"} = {}

\* a running task next to one that completed with its work's value
C18_Witness ==
    \E t, u \in DOMAIN tasks :
        /\ tasks[t].status = "running" /\ "started_at" \in DOMAIN tasks[t]
        /\ tasks[u].status = "completed" /\ tasks[u].result = "r2"
        /\ work[u].outcome = <<"returned", "r2">>

\* C19: a search on a vector store whose knowledge_base collection does not
\* exist returns the empty list and leaves the vector store as it is: the
\* collection is not created.
C19_SearchWithoutCollection ==
    [][\A q \in SearchIds :
          (QueryCollection(q) /\ ~collection) =>
              /\ search'[q].pc = "done"
              /\ search'[q].reply = Some(<<>>)
              /\ collection' = collection /\ store' = store]_vars

\* a search has returned the empty list and there is still no collection
C19_Witness ==
    \E q \in SearchIds :
        /\ search[q].pc = "done" /\ search[q].reply = Some(<<>>)
        /\ ~collection /\ store = {}

\* C20: the embedding model is constructed at most once: all the runs and
\* searches that have obtained the model hold one and the same instance.
C20_SingleModel ==
    Cardinality(({run[t].model : t \in TaskIds}
                    \cup {search[q].model : q \in SearchIds}) \ {None}) <= 1

\* C21: for each client, at most requests_per_minute requests are passed on
\* within the 60 seconds after the request that opened the client's current
\* window; a further request of the client in the window is answered 429 and
\* is not passed on; and a request of one client leaves the window and count
\* of every other client as they are (an entry is dropped only once its
\* window is over).
C21_RateLimit ==
    /\ [](\A ip \in Clients :
              limiter.windows[ip] # None =>
                  limiter.windows[ip][2] <= RequestsPerMinute)
    /\ [][\A ip \in Clients :
              Dispatch(ip) =>
                  /\ (/\ limiter.windows[ip] # None
                      /\ limiter.now - limiter.windows[ip][1] < Window
                      /\ limiter.windows[ip][2] >= RequestsPerMinute) =>
                         /\ limiter'.answer = <<ip, 429>>
                         /\ limiter'.windows = limiter.windows
                  /\ \A o \in DOMAIN limiter.request_counts \ {ip} :
                         IF o \in DOMAIN limiter'.request_counts
                         THEN limiter'.request_counts[o] = limiter.request_counts[o]
                         ELSE limiter.now - limiter.request_counts[o][2] > Window
                  /\ \A o \in Clients \ {ip} :
                         limiter'.windows[o] = limiter.windows[o]]_vars

\* a client is refused in its second window while the other client, whose
\* first window is over, has just been passed on again
C21_Witness ==
    /\ limiter.answer = <<1, 429>>
    /\ limiter.windows[1] = <<Window, RequestsPerMinute>>
    /\ limiter.windows[2] # None /\ limiter.windows[2][1] > Window

\* the candidates of a call, from its inputs: the semantic results and the
\* stored chunks with a keyword overlap
LinkPool ==
    {[chunk_id |-> k,
      similarity_score |->
          IF \E j \in DOMAIN links.semantic : links.semantic[j] = k
          THEN SimilarityScore(links.chunks[k].distance) ELSE 0,
      keyword_overlap |-> KeywordOverlap(links.note_keywords, links.chunks[k].keywords)]
        : k \in {c \in DOMAIN links.chunks :
                    \/ \E j \in DOMAIN links.semantic : links.semantic[j] = c
                    \/ KeywordOverlap(links.note_keywords,
                                      links.chunks[c].keywords) > 0}}

\* C22: suggest_note_links returns at most limit suggestions, each chunk at
\* most once, each a semantic-query candidate or a stored chunk with a
\* keyword overlap greater than 0, in descending order of (similarity_score,
\* keyword_overlap); and no such candidate that is left out ranks strictly
\* above a returned one.
C22_SuggestionsRanked ==
    links.suggestions # None =>
        LET r == links.suggestions[1] IN
        /\ Len(r) <= links.limit
        /\ \A a, b \in DOMAIN r : a # b => r[a].chunk_id # r[b].chunk_id
        /\ \A a \in DOMAIN r : r[a] \in LinkPool
        /\ \A a, b \in DOMAIN r : a < b => ~KeyGreater(r[b], r[a])
        /\ \A c \in LinkPool :
              (\A a \in DOMAIN r : r[a] # c) =>
                  \A a \in DOMAIN r : ~KeyGreater(c, r[a])

\* a call that returned limit suggestions and left out a candidate found by
\* keyword overlap alone, with one returned suggestion found that way too
C22_Witness ==
    /\ links.suggestions # None
    /\ Len(links.suggestions[1]) = links.limit
    /\ Cardinality(LinkPool) > links.limit
    /\ \E a \in DOMAIN links.suggestions[1] :
          /\ links.suggestions[1][a].similarity_score = 0
          /\ \A j \in DOMAIN links.semantic :
                links.semantic[j] # links.suggestions[1][a].chunk_id

\* C23: a Source's chunk_count and last_indexed_at change only in the
\* Complete step of a run for it: a refresh, a re-submission, a soft failure
\* and the failure of a run by an exception leave both as they were.
C23_IndexFieldsFrame ==
    [][\A s \in DOMAIN sources :
          (\/ sources'[s].chunk_count # sources[s].chunk_count
           \/ sources'[s].last_indexed_at # sources[s].last_indexed_at) =>
              \E t \in TaskIds : Complete(t) /\ Sid(t) = s]_vars

\* a Source indexed by one run whose next run failed by an exception
C23_Witness ==
    \E u, t \in TaskIds :
        /\ u < t /\ IsIngest(u) /\ IsIngest(t) /\ Sid(u) = Sid(t)
        /\ Succeeded(u) /\ run[t].exc # None /\ run[t].pc = "returned"
        /\ sources[Sid(t)].status = "failed"
        /\ sources[Sid(t)].chunk_count = run[u].total_chunks
        /\ sources[Sid(t)].last_indexed_at = Some(u)

\* C24: the sheet-extraction and reference-extraction steps that follow the
\* pipeline inside the ingestion task write no field of the Source record.
C24_ExtractionWritesNothing ==
    [][\A t \in TaskIds :
          (SheetExtraction(t) \/ ReferenceExtraction(t)) =>
              sources' = sources]_vars

\* C25: a step of a run for a source adds only chunks tagged with the
\* source's path, removes only chunks that the run read as tagged with that
\* path, and leaves the chunks of every other path as they are, whatever
\* other runs do in between.
C25_SourceIsolation ==
    [][\A t \in TaskIds :
          (run'[t] # run[t] /\ store' # store) =>
              LET p == run[t].file_path[1] IN
              /\ \A c \in store' \ store : c.source = p
              /\ \A c \in store \ store' :
                    c.source = p /\ c.id \in run[t].existing_ids
              /\ {c \in store' : c.source # p} = {c \in store : c.source # p}]_vars

\* a run has replaced the chunks of its source while the run of a source
\* with the same file name in another directory had added its own and was
\* not yet complete
C25_Witness ==
    \E t, u \in TaskIds :
        /\ IsIngest(t) /\ IsIngest(u) /\ Sid(t) # Sid(u)
        /\ Succeeded(t) /\ run[t].existing_ids # {}
        /\ run[u].pc = "complete"
        /\ FileName(sources[Sid(t)].file_path) = FileName(sources[Sid(u)].file_path)
        /\ ExistingIds(store, sources[Sid(t)].file_path) = RunIds(t)
        /\ ExistingIds(store, sources[Sid(u)].file_path) = RunIds(u)

\* C26: when a run for a source finds under the path both the chunks of an
\* earlier index and the chunks of a run that failed after its add (its
\* delete did not complete), and succeeds, the store holds under the path
\* exactly the run's own chunks.
C26_AbortedRunCleanedUp ==
    \A a, t \in TaskIds :
        (/\ a < t /\ IsIngest(a) /\ IsIngest(t) /\ Sid(a) = Sid(t)
         /\ run[a].exc # None /\ RunIds(a) # {}
         /\ RunIds(a) \subseteq run[t].existing_ids
         /\ \E id \in run[t].existing_ids : id[2] < a
         /\ Succeeded(t))
        => /\ ExistingIds(store, sources[Sid(t)].file_path) = RunIds(t)
           /\ sources[Sid(t)].chunk_count = run[t].total_chunks

C26_Witness ==
    \E a, t \in TaskIds :
        /\ a < t /\ IsIngest(a) /\ IsIngest(t) /\ Sid(a) = Sid(t)
        /\ run[a].exc # None /\ RunIds(a) # {}
        /\ RunIds(a) \subseteq run[t].existing_ids
        /\ \E id \in run[t].existing_ids : id[2] < a
        /\ Succeeded(t) /\ sources[Sid(t)].status = "completed"
        /\ \A c \in store : c.source = sources[Sid(t)].file_path => c.id[2] = t

C28_TaskCompletedAnyway ==
    /\ [](\A t \in TaskIds :
            (work[t].kind = "ingest" /\ run[t].pc = "returned" /\ wpc[t] = "done")
                => /\ tasks[t].status = "completed"
                   /\ tasks[t].result = PyNone)
    /\ [][\A t \in TaskIds :
             /\ (At(t, "returned") /\ wpc'[t] # wpc[t])
                   => wpc'[t] = "reference" /\ tasks' = tasks
             /\ (wpc[t] = "reference" /\ wpc'[t] # wpc[t])
                   => wpc'[t] = "done" /\ tasks'[t].status = "completed"]_vars

C28_Witness ==
    \E a, t \in TaskIds :
        /\ work[a].kind = "ingest" /\ work[t].kind = "ingest"
        /\ wpc[a] = "done" /\ wpc[t] = "done"
        /\ run[a].result = Some("Source not found")
        /\ tasks[a].status = "completed"
        /\ Sid(t) \in DOMAIN sources /\ sources[Sid(t)].status = "failed"
        /\ run[t].exc # None
        /\ tasks[t].status = "completed"

\* C29: no two records have the same file path; a submission of a registered
\* path resets that record (status pending, progress 0, error message null,
\* started_at null) and keeps its chunk_count, last_indexed_at and features;
\* a submission of a new path creates one record in status pending.
C29_OneRecordPerPath ==
    /\ [](\A a, b \in DOMAIN sources :
            sources[a].file_path = sources[b].file_path => a = b)
    /\ [][\A path \in Paths :
             AddKnowledgeSource(path) =>
                 LET sid == CreateOrUpdateId(sources, path) IN
                 IF sid \in DOMAIN sources
                 THEN /\ DOMAIN sources' = DOMAIN sources
                      /\ sources[sid].file_path = path
                      /\ sources'[sid].status = "pending"
                      /\ sources'[sid].progress = Pct(0)
                      /\ sources'[sid].error_message = None
                      /\ sources'[sid].started_at = None
                      /\ sources'[sid].chunk_count = sources[sid].chunk_count
                      /\ sources'[sid].last_indexed_at = sources[sid].last_indexed_at
                      /\ sources'[sid].features = sources[sid].features
                 ELSE /\ DOMAIN sources' = DOMAIN sources \cup {sid}
                      /\ sources'[sid].file_path = path
                      /\ sources'[sid].status = "pending"]_vars

\* C30: the checkpoints of a run with n chunks, in the order of its steps:
\* 0 at start, 20 at chunking, 30 at the start of embedding, after the k-th
\* batch of 32 the value 30 + 60*min(32k, n)/n, greater than 30 and at most
\* 90, the batch with k = ceil(n/32) being the last and writing exactly 90,
\* then 90 at store and 100 at completion; no other step of the run that
\* does not fail writes the progress.
C30_Checkpoints ==
    [][\A t \in TaskIds :
          (IsIngest(t) /\ run'[t] # run[t] /\ run'[t].exc = None) =>
              LET pc == run[t].pc
                  next == run'[t].pc
                  n == run'[t].total_chunks
                  k == run'[t].i \div BatchSize
                  v == sources'[Sid(t)].progress IN
              /\ (pc = "start" /\ next = "extract") => v = <<0, 1>>
              /\ (pc = "extract" /\ next = "chunk") => v = <<20, 1>>
              /\ (pc = "chunk" /\ next = "model") =>
                     v = <<30, 1>> /\ n > 0 /\ run'[t].i = 0
              /\ pc = "embed" =>
                     /\ run[t].i = BatchSize * (k - 1)
                     /\ v[1] * n = v[2] * (30 * n + 60 * Min(BatchSize * k, n))
                     /\ 30 * v[2] < v[1] /\ v[1] <= 90 * v[2]
                     /\ next = (IF k = (n + BatchSize - 1) \div BatchSize THEN "store" ELSE "embed")
                     /\ next = "store" => v[1] = 90 * v[2]
              /\ (pc = "store") => v = <<90, 1>> /\ next = "collection"
              /\ (pc = "complete") => v = <<100, 1>> /\ next = "returned"
              /\ (pc \in {"model", "load", "collection", "get", "add", "delete"})
                     => v = sources[Sid(t)].progress]_vars

\* a run of three batches, the last one partial, has succeeded
C30_Witness ==
    \E t \in TaskIds :
        /\ Succeeded(t)
        /\ run[t].total_chunks > 2 * BatchSize /\ run[t].total_chunks % BatchSize # 0
        /\ run[t].i = 3 * BatchSize
        /\ sources[Sid(t)].progress = <<100, 1>>

====
